---- MODULE Spec2Model ----
(***************************************************************************)
(* A model of the notes-kv action (src/src/index.ts): an action that       *)
(* stores key/value metadata as a JSON git note on the current commit.     *)
(*                                                                         *)
(* Text (an input string, a file's content, a note body) is a sequence of  *)
(* one-character strings.  A JavaScript value is a record                  *)
(*   [t |-> its type tag, p |-> the text of a primitive, es |-> the own    *)
(*    enumerable properties in JavaScript's property order, each <<k, v>>] *)
(***************************************************************************)
EXTENDS Integers, Sequences, FiniteSets, TLC

\* ------------------------------------------------------------------ bounds

\* Longest text handed to parseInput in SpecParse.
MaxLen == 7

\* Longest inline `values` text a run is started with.
MaxValuesLen == 3

\* ------------------------------------------------------------------- text

Chars == {"a", "b", "=", " ", "\n"}

WhiteSpace == {" ", "\n", "\t", "\r"}

Digits == <<"0", "1", "2", "3", "4", "5", "6", "7", "8", "9">>

Texts(n) == UNION {[1..k -> Chars] : k \in 0..n}

\* String.prototype.trim: white space removed from both ends.
TrimLeft(s) ==
  LET idx == {i \in 1..Len(s) : s[i] \notin WhiteSpace}
  IN IF idx = {} THEN <<>>
     ELSE SubSeq(s, CHOOSE i \in idx : \A j \in idx : i <= j, Len(s))

TrimRight(s) ==
  LET idx == {i \in 1..Len(s) : s[i] \notin WhiteSpace}
  IN IF idx = {} THEN <<>>
     ELSE SubSeq(s, 1, CHOOSE i \in idx : \A j \in idx : j <= i)

Trim(s) == TrimRight(TrimLeft(s))

\* String.prototype.split(sep) for a one-character separator: every
\* occurrence separates, so n occurrences give n + 1 parts.
Split(s, sep) ==
  LET F[i \in 0..Len(s)] ==
        IF i = 0 THEN << <<>> >>
        ELSE IF s[i] = sep THEN Append(F[i - 1], <<>>)
        ELSE [F[i - 1] EXCEPT ![Len(F[i - 1])] = Append(@, s[i])]
  IN F[Len(s)]

\* A split that separates on the first occurrence only.
SplitFirst(s, sep) ==
  LET idx == {i \in 1..Len(s) : s[i] = sep}
  IN IF idx = {} THEN << s >>
     ELSE LET f == CHOOSE i \in idx : \A j \in idx : i <= j
          IN << SubSeq(s, 1, f - 1), SubSeq(s, f + 1, Len(s)) >>

\* ------------------------------------------------------ JavaScript values

Undefined == [t |-> "undefined", p |-> <<>>, es |-> <<>>]
JSNull == [t |-> "null", p |-> <<>>, es |-> <<>>]
JSString(cs) == [t |-> "string", p |-> cs, es |-> <<>>]
JSNumber(cs) == [t |-> "number", p |-> cs, es |-> <<>>]
JSTrue == [t |-> "boolean", p |-> <<"t", "r", "u", "e">>, es |-> <<>>]
JSObject(es) == [t |-> "object", p |-> <<>>, es |-> es]
JSArray(items) ==
  [t |-> "array", p |-> <<>>,
   es |-> [i \in 1..Len(items) |-> << <<Digits[i]>>, items[i] >>]]

\* The typeof operator: null and arrays are "object".
TypeOf(v) ==
  IF v.t = "object" \/ v.t = "array" \/ v.t = "null" THEN "object" ELSE v.t

IsIndexKey(k) == Len(k) = 1 /\ \E d \in 1..Len(Digits) : Digits[d] = k[1]

IndexOfKey(k) == CHOOSE d \in 1..Len(Digits) : Digits[d] = k[1]

KeysOf(es) == {es[i][1] : i \in 1..Len(es)}

\* The value of property k in the entries es (k is one of its keys).
Get(es, k) == es[CHOOSE i \in 1..Len(es) : es[i][1] = k][2]

\* Defining property k := v on an ordinary object: an existing property
\* keeps its place; a new array-index key goes among the index keys in
\* ascending order, before every string key; a new string key goes last.
SetProp(es, k, v) ==
  IF k \in KeysOf(es)
  THEN [i \in 1..Len(es) |-> IF es[i][1] = k THEN <<k, v>> ELSE es[i]]
  ELSE IF IsIndexKey(k)
  THEN LET before == {i \in 1..Len(es) :
                        IsIndexKey(es[i][1]) /\ IndexOfKey(es[i][1]) < IndexOfKey(k)}
           n == Cardinality(before)
       IN SubSeq(es, 1, n) \o << <<k, v>> >> \o SubSeq(es, n + 1, Len(es))
  ELSE Append(es, <<k, v>>)

\* Defining the properties ps, in order, on the entries es.
RECURSIVE SetProps(_, _)
SetProps(es, ps) ==
  IF ps = <<>> THEN es
  ELSE SetProps(SetProp(es, ps[1][1], ps[1][2]), Tail(ps))

\* The own enumerable properties a spread (...v) copies and Object.keys
\* lists: an object's or array's entries, a string's characters by index,
\* nothing for a number, a boolean or null.
OwnEntries(v) ==
  IF v.t = "object" \/ v.t = "array" THEN v.es
  ELSE IF v.t = "string"
  THEN [i \in 1..Len(v.p) |-> << <<Digits[i]>>, JSString(<<v.p[i]>>) >>]
  ELSE <<>>

\* The object literal { ...a, ...b }.
Spread(a, b) == JSObject(SetProps(SetProps(<<>>, OwnEntries(a)), OwnEntries(b)))

\* Object.fromEntries(pairs) for pairs of strings.
FromEntries(pairs) ==
  JSObject(SetProps(<<>>,
    [i \in 1..Len(pairs) |-> << pairs[i][1], JSString(pairs[i][2]) >>]))

\* ------------------------------------------------------------------- JSON

Quote == "\""

RECURSIVE Join(_, _)
Join(parts, sep) ==
  IF parts = <<>> THEN <<>>
  ELSE IF Len(parts) = 1 THEN parts[1]
  ELSE parts[1] \o <<sep>> \o Join(Tail(parts), sep)

\* JSON.stringify: no white space; a string in double quotes (the texts
\* of the model hold no character that needs an escape); an object's
\* members in property order.
RECURSIVE JSONstringify(_)
JSONstringify(v) ==
  IF v.t = "string" THEN <<Quote>> \o v.p \o <<Quote>>
  ELSE IF v.t = "number" \/ v.t = "boolean" THEN v.p
  ELSE IF v.t = "null" THEN <<"n", "u", "l", "l">>
  ELSE IF v.t = "array"
  THEN <<"[">> \o Join([i \in 1..Len(v.es) |-> JSONstringify(v.es[i][2])], ",")
       \o <<"]">>
  ELSE <<"{">>
       \o Join([i \in 1..Len(v.es) |->
                  <<Quote>> \o v.es[i][1] \o <<Quote, ":">>
                  \o JSONstringify(v.es[i][2])], ",")
       \o <<"}">>

\* Split on the separators that stand outside double quotes.
QuoteSplit(s, sep) ==
  LET F[i \in 0..Len(s)] ==
        IF i = 0 THEN [parts |-> << <<>> >>, quoted |-> FALSE]
        ELSE LET prev == F[i - 1]
             IN IF s[i] = sep /\ ~prev.quoted
                THEN [parts |-> Append(prev.parts, <<>>), quoted |-> FALSE]
                ELSE [parts |-> [prev.parts EXCEPT ![Len(prev.parts)] = Append(@, s[i])],
                      quoted |-> IF s[i] = Quote THEN ~prev.quoted ELSE prev.quoted]
  IN F[Len(s)].parts

NoValue == [ok |-> FALSE, val |-> Undefined]

\* The characters a JSON string cannot hold unescaped.
NotInAString == {Quote, "\\", "\n", "\t", "\r"}

\* A JSON scalar: null, true, a string without escapes, a natural number.
ParseScalar(s) ==
  IF s = <<"n", "u", "l", "l">> THEN [ok |-> TRUE, val |-> JSNull]
  ELSE IF s = <<"t", "r", "u", "e">> THEN [ok |-> TRUE, val |-> JSTrue]
  ELSE IF /\ Len(s) >= 2 /\ s[1] = Quote /\ s[Len(s)] = Quote
          /\ \A i \in 2..(Len(s) - 1) : s[i] \notin NotInAString
  THEN [ok |-> TRUE, val |-> JSString(SubSeq(s, 2, Len(s) - 1))]
  ELSE IF /\ Len(s) >= 1
          /\ \A i \in 1..Len(s) : \E d \in 1..Len(Digits) : Digits[d] = s[i]
          /\ (Len(s) = 1 \/ s[1] # "0")
  THEN [ok |-> TRUE, val |-> JSNumber(s)]
  ELSE NoValue

\* One member "key": scalar of an object.
ParseMember(s) ==
  LET parts == QuoteSplit(s, ":")
      k == ParseScalar(Trim(parts[1]))
      v == ParseScalar(Trim(parts[2]))
  IN IF Len(parts) = 2 /\ k.ok /\ k.val.t = "string" /\ v.ok
     THEN [ok |-> TRUE, key |-> k.val.p, val |-> v.val]
     ELSE [ok |-> FALSE, key |-> <<>>, val |-> Undefined]

\* JSON.parse over the JSON texts of the model: a scalar, or an array or
\* an object of scalars, white space allowed between tokens.  ok = FALSE
\* is the SyntaxError.  A repeated key keeps its first place and its last
\* value, as SetProp does.
JSONparse(text) ==
  LET s == Trim(text)
      inner == IF Len(s) >= 2 THEN Trim(SubSeq(s, 2, Len(s) - 1)) ELSE <<>>
      parts == QuoteSplit(inner, ",")
  IN IF Len(s) >= 2 /\ s[1] = "{" /\ s[Len(s)] = "}"
     THEN IF inner = <<>> THEN [ok |-> TRUE, val |-> JSObject(<<>>)]
          ELSE LET ms == [i \in 1..Len(parts) |-> ParseMember(Trim(parts[i]))]
               IN IF \A i \in 1..Len(ms) : ms[i].ok
                  THEN [ok |-> TRUE,
                        val |-> JSObject(SetProps(<<>>,
                                  [i \in 1..Len(ms) |-> <<ms[i].key, ms[i].val>>]))]
                  ELSE NoValue
     ELSE IF Len(s) >= 2 /\ s[1] = "[" /\ s[Len(s)] = "]"
     THEN IF inner = <<>> THEN [ok |-> TRUE, val |-> JSArray(<<>>)]
          ELSE LET xs == [i \in 1..Len(parts) |-> ParseScalar(Trim(parts[i]))]
               IN IF \A i \in 1..Len(xs) : xs[i].ok
                  THEN [ok |-> TRUE, val |-> JSArray([i \in 1..Len(xs) |-> xs[i].val])]
                  ELSE NoValue
     ELSE ParseScalar(s)

\* ------------------------------------------------------------- parseInput

Thrown == [ok |-> FALSE, val |-> Undefined]
Returned(v) == [ok |-> TRUE, val |-> v]

\* Lines 17-25: the trimmed parts of each line of the trimmed input.
PairsOf(input) ==
  LET lines == Split(Trim(input), "\n")
  IN [i \in 1..Len(lines) |->
        LET parts == Split(Trim(lines[i]), "=")
        IN [j \in 1..Len(parts) |-> Trim(parts[j])]]

\* Lines 27-29: pair.length !== 2 || !pair[0] || !pair[1].
InvalidPair(pair) == Len(pair) # 2 \/ pair[1] = <<>> \/ pair[2] = <<>>

\* parseInput with each line split on its first '=' only.
parseInputFirstEquals(input) ==
  LET lines == Split(Trim(input), "\n")
      pairs == [i \in 1..Len(lines) |->
                  LET parts == SplitFirst(Trim(lines[i]), "=")
                  IN [j \in 1..Len(parts) |-> Trim(parts[j])]]
  IN IF \E i \in 1..Len(pairs) : InvalidPair(pairs[i])
     THEN Thrown
     ELSE Returned(FromEntries(pairs))

parseInput(input) ==
  IF \E i \in 1..Len(PairsOf(input)) : InvalidPair(PairsOf(input)[i])
  THEN Thrown
  ELSE Returned(FromEntries(PairsOf(input)))

\* -------------------------------------------------------------- readInput

\* `x && x.trim() !== ""` of lines 54-57, 62 and 66.
Given(x) == x # <<>> /\ Trim(x) # <<>>

\* What readFile gives: the file's content, or an error (ReadError).
ReadError == <<"ENOENT">>
Unread == <<"UNREAD">>

\* readInput(valuesInput, valuesFile), with fileContent what readFile
\* would give for valuesFile.  read says whether the file was read.
readInputPreferInline(valuesInput, valuesFile, fileContent) ==
  IF Given(valuesInput)
  THEN parseInput(valuesInput) @@ [read |-> FALSE]
  ELSE IF Given(valuesFile)
  THEN IF fileContent = ReadError \/ ~JSONparse(fileContent).ok
       THEN Thrown @@ [read |-> TRUE]
       ELSE IF TypeOf(JSONparse(fileContent).val) # "object"
       THEN Thrown @@ [read |-> TRUE]
       ELSE Returned(JSONparse(fileContent).val) @@ [read |-> TRUE]
  ELSE Thrown @@ [read |-> FALSE]

readInput(valuesInput, valuesFile, fileContent) ==
  IF Given(valuesInput) /\ Given(valuesFile)
  THEN Thrown @@ [read |-> FALSE]
  ELSE IF Given(valuesInput)
  THEN parseInput(valuesInput) @@ [read |-> FALSE]
  ELSE IF Given(valuesFile)
  THEN IF fileContent = ReadError \/ ~JSONparse(fileContent).ok
       THEN Thrown @@ [read |-> TRUE]
       ELSE IF TypeOf(JSONparse(fileContent).val) # "object"
       THEN Thrown @@ [read |-> TRUE]
       ELSE Returned(JSONparse(fileContent).val) @@ [read |-> TRUE]
  ELSE Thrown @@ [read |-> FALSE]

\* ------------------------------------------------------------------- git

\* No note on the commit under the notes reference.
NoNote == <<"NONE">>

\* The steps of run, each named by the git command it waits for.
Commands == <<"rev-parse", "fetch", "show", "add", "push">>

\* Object.keys(v): a TypeError for null and undefined.
ObjectKeysThrows(v) == v.t = "null" \/ v.t = "undefined"

NeverEmpty(v) == FALSE

\* Object.keys(notes).length === 0 of line 179.
NoKeys(v) == Len(OwnEntries(v)) = 0

\* fetchNotesRef: git fetch origin refs/notes/<ref>:refs/notes/<ref>.
\* A fetch that succeeds brings the remote note; one that fails (no such
\* remote reference, no network, a rejected update) leaves the local one.
LocalAfterFetch(localNote, remoteNote, ok) == IF ok THEN remoteNote ELSE localNote

FetchFailureIsFatal(ok) == IF ok THEN "show" ELSE "failed"

\* Where run goes after fetchNotesRef: the catch of lines 116-124 absorbs
\* the failure.
AfterFetch(ok) == "show"

\* execGit("notes", "--ref", notesRef, "show"): fails when the commit has
\* no note; otherwise the trimmed body.
ShowNote(localNote) ==
  IF localNote = NoNote THEN [ok |-> FALSE, out |-> <<>>]
  ELSE [ok |-> TRUE, out |-> Trim(localNote)]

ExistingWins(existingNote, notes) ==
  IF existingNote # <<>>
  THEN IF JSONparse(existingNote).ok
       THEN Returned(Spread(notes, JSONparse(existingNote).val))
       ELSE Returned(notes)
  ELSE Returned(notes)

ParseFailureIsFatal(existingNote, notes) ==
  IF existingNote # <<>>
  THEN IF JSONparse(existingNote).ok
       THEN Returned(Spread(JSONparse(existingNote).val, notes))
       ELSE Thrown
  ELSE Returned(notes)

\* Lines 132-150 of addOrUpdateNotes: the notes to write, given what notes
\* show printed ("" when it failed).
MergeExisting(existingNote, notes) ==
  IF existingNote # <<>>
  THEN IF JSONparse(existingNote).ok
       THEN Returned(Spread(JSONparse(existingNote).val, notes))
       ELSE Returned(notes)
  ELSE Returned(notes)

AppendNote(localNote, message) ==
  IF localNote = NoNote THEN message ELSE localNote \o <<"\n">> \o message

\* git notes add -f -m <message>: the note is replaced.
NoteAfterAdd(localNote, message) == message

PushWithoutForce(remoteNote, localNote) ==
  IF remoteNote = NoNote THEN localNote ELSE remoteNote

\* git push origin refs/notes/* -f: the remote takes the local note,
\* whatever it held.
RemoteAfterPush(remoteNote, localNote) == localNote

\* ------------------------------------------------------------------ state

Runs == {1, 2}
Repos == {1, 2}

VARIABLES
  input,      \* SpecParse: the text handed to parseInput
  parsed,     \* SpecParse: what parseInput did with it
  remote,     \* the note of the commit on origin (a text, or NoNote)
  local,      \* the note of the commit in each working repository
  run,        \* each run of the action: see IdleRun
  remote0,    \* remote and local as they were before any run
  local0

vars == <<input, parsed, remote, local, run, remote0, local0>>

NotCalled == [ok |-> FALSE, val |-> [t |-> "pending", p |-> <<>>, es |-> <<>>]]

IdleRun(repo, pc) ==
  [ pc |-> pc,                \* "off", "start", a command of Commands, "done"
    repo |-> repo,            \* the working repository the run executes in
    values |-> <<>>,          \* getInput("values")
    valuesFile |-> <<>>,      \* getInput("values_file")
    content |-> Unread,       \* what readFile gave, once the file is read
    resolved |-> NotCalled,   \* what readInput did
    existingNote |-> <<>>,    \* existingNote of addOrUpdateNotes
    message |-> NoNote,       \* the -m argument of notes add
    cmds |-> <<>>,            \* the git commands issued: [cmd, ok]
    status |-> "running",     \* "running", "success", "failed" (setFailed)
    after |-> {},             \* the runs that had ended when this one began
    pushed |-> NoNote ]       \* the remote note right after this run's push

\* The note bodies a repository may hold before a run.
PriorNotes ==
  { NoNote,
    JSONstringify(JSObject(<< << <<"b">>, JSString(<<"b">>) >>,
                              << <<"a">>, JSString(<<"a">>) >> >>)),
    <<"{", " ", Quote, "b", Quote, ":", "7", " ", "}">>,
    JSONstringify(JSArray(<< JSNumber(<<"7">>) >>)),
    JSONstringify(JSString(<<"a", "b">>)),
    JSONstringify(JSNumber(<<"7">>)),
    JSONstringify(JSNull),
    <<"x">>,
    <<" ">> }

\* What readFile may give for values_file.
FileContents ==
  { ReadError,
    JSONstringify(JSObject(<< << <<"a">>, JSString(<<"b">>) >> >>)),
    <<"{", Quote, "b", Quote, ":", "7", "}", "\n">>,
    <<"{", "}">>,
    <<"[", "]">>,
    <<"[", "7", "]">>,
    <<Quote, "a", Quote>>,
    <<"7">>,
    <<"t", "r", "u", "e">>,
    <<"n", "u", "l", "l">>,
    <<"x">> }

\* What getInput("values_file") may give: nothing, white space, a path.
FileNames == {<<>>, <<" ">>, <<"f">>}

NotRead == {Unread}

ParseIdle == input = <<>> /\ parsed = NotCalled

\* ---------------------------------------------------------------- actions

Ended(r) == run[r].pc = "done"

Issue(r, cmd, ok) == Append(run[r].cmds, [cmd |-> cmd, ok |-> ok])

Fail(rec) == [rec EXCEPT !.pc = "done", !.status = "failed"]

\* Lines 171-189 of run: the inputs, readInput, the empty check.  A throw
\* of readInput or of Object.keys reaches the catch: setFailed.  A file
\* content is drawn only where readInput reads the file.
Start(r, Values, Files, Contents) ==
  /\ run[r].pc = "start"
  /\ \E v \in Values, f \in Files :
     \E c \in IF Given(f) /\ ~Given(v) THEN Contents ELSE NotRead :
       LET res == readInput(v, f, c)
           rec == [run[r] EXCEPT
                     !.values = v, !.valuesFile = f,
                     !.content = IF res.read THEN c ELSE Unread,
                     !.resolved = [ok |-> res.ok, val |-> res.val],
                     !.after = {q \in Runs : Ended(q)}]
       IN run' = [run EXCEPT ![r] =
            IF ~res.ok \/ ObjectKeysThrows(res.val) THEN Fail(rec)
            ELSE IF NoKeys(res.val)
            THEN [rec EXCEPT !.pc = "done", !.status = "success"]
            ELSE [rec EXCEPT !.pc = "rev-parse"]]
  /\ UNCHANGED <<input, parsed, remote, local, remote0, local0>>

\* getCurrentCommit: git rev-parse HEAD.
RevParse(r) ==
  /\ run[r].pc = "rev-parse"
  /\ \E ok \in BOOLEAN :
       LET rec == [run[r] EXCEPT !.cmds = Issue(r, "rev-parse", ok)]
       IN run' = [run EXCEPT ![r] =
            IF ok THEN [rec EXCEPT !.pc = "fetch"] ELSE Fail(rec)]
  /\ UNCHANGED <<input, parsed, remote, local, remote0, local0>>

\* fetchNotesRef.
Fetch(r) ==
  /\ run[r].pc = "fetch"
  /\ \E ok \in BOOLEAN :
       /\ ok => remote # NoNote
       /\ local' = [local EXCEPT ![run[r].repo] = LocalAfterFetch(@, remote, ok)]
       /\ LET rec == [run[r] EXCEPT !.cmds = Issue(r, "fetch", ok)]
          IN run' = [run EXCEPT ![r] =
               IF AfterFetch(ok) = "failed" THEN Fail(rec)
               ELSE [rec EXCEPT !.pc = AfterFetch(ok)]]
  /\ UNCHANGED <<input, parsed, remote, remote0, local0>>

\* Lines 132-150 and 159 of addOrUpdateNotes: notes show, the merge, and
\* the message of the notes add that follows.
Show(r) ==
  /\ run[r].pc = "show"
  /\ LET shown == ShowNote(local[run[r].repo])
         merged == MergeExisting(shown.out, run[r].resolved.val)
         rec == [run[r] EXCEPT !.cmds = Issue(r, "show", shown.ok),
                               !.existingNote = shown.out]
     IN run' = [run EXCEPT ![r] =
          IF ~merged.ok THEN Fail(rec)   \* a throw would reach run's catch
          ELSE [rec EXCEPT !.pc = "add", !.message = JSONstringify(merged.val)]]
  /\ UNCHANGED <<input, parsed, remote, local, remote0, local0>>

\* Lines 152-163 of addOrUpdateNotes: git notes add -f -m <message>.
Add(r) ==
  /\ run[r].pc = "add"
  /\ \E ok \in BOOLEAN :
       /\ local' = [local EXCEPT ![run[r].repo] =
                      IF ok THEN NoteAfterAdd(@, run[r].message) ELSE @]
       /\ LET rec == [run[r] EXCEPT !.cmds = Issue(r, "add", ok)]
          IN run' = [run EXCEPT ![r] =
               IF ok THEN [rec EXCEPT !.pc = "push"] ELSE Fail(rec)]
  /\ UNCHANGED <<input, parsed, remote, remote0, local0>>

\* pushNotes, then "Notes stored successfully."
Push(r) ==
  /\ run[r].pc = "push"
  /\ \E ok \in BOOLEAN :
       /\ remote' = IF ok THEN RemoteAfterPush(remote, local[run[r].repo]) ELSE remote
       /\ LET rec == [run[r] EXCEPT !.cmds = Issue(r, "push", ok)]
          IN run' = [run EXCEPT ![r] =
               IF ok THEN [rec EXCEPT !.pc = "done", !.status = "success",
                                      !.pushed = remote']
               ELSE Fail(rec)]
  /\ UNCHANGED <<input, parsed, local, remote0, local0>>

\* ----------------------------------------------------- the specifications

\* SpecParse: parseInput applied to every text of at most MaxLen characters.
InitParse ==
  /\ input \in Texts(MaxLen)
  /\ parsed = NotCalled
  /\ remote = NoNote /\ remote0 = NoNote
  /\ local = [p \in Repos |-> NoNote] /\ local0 = local
  /\ run = [r \in Runs |-> IdleRun(r, "off")]

CallParseInput ==
  /\ parsed = NotCalled
  /\ run[1].pc = "off"
  /\ parsed' = parseInput(input)
  /\ UNCHANGED <<input, remote, local, run, remote0, local0>>

NextParse == CallParseInput

SpecParse == InitParse /\ [][NextParse]_vars

\* SpecRun: one run, on every input of at most MaxValuesLen characters or
\* every file content, in a repository and against a remote holding any
\* prior note.
InitRun ==
  /\ ParseIdle
  /\ remote \in PriorNotes /\ remote0 = remote
  /\ local \in [Repos -> PriorNotes] /\ local[2] = NoNote /\ local0 = local
  /\ run = [r \in Runs |-> IdleRun(1, IF r = 1 THEN "start" ELSE "off")]

NextRun ==
  \/ Start(1, Texts(MaxValuesLen), FileNames, FileContents)
  \/ RevParse(1)
  \/ Fetch(1)
  \/ Show(1)
  \/ Add(1)
  \/ Push(1)

SpecRun == InitRun /\ [][NextRun]_vars

\* Spec: two runs, each in a fresh checkout (no local note) or both in the
\* same one, their steps interleaved in every way.  Each has one of three
\* inline maps, or a file holding an object, or no input at all.
RunValues ==
  { <<"a", "=", "b">>, <<"b", "=", "a">>, <<"a", "=", "a">>, <<>> }

RunFileNames == {<<>>, <<"f">>}

RunFileContents == { <<"{", Quote, "b", Quote, ":", "7", "}", "\n">> }

Init ==
  /\ ParseIdle
  /\ remote \in PriorNotes /\ remote0 = remote
  /\ local = [p \in Repos |-> NoNote] /\ local0 = local
  /\ \E p \in Repos :
       run = [r \in Runs |-> IdleRun(IF r = 1 THEN 1 ELSE p, "start")]

Next ==
  \E r \in Runs :
    \/ Start(r, RunValues, RunFileNames, RunFileContents)
    \/ RevParse(r)
    \/ Fetch(r)
    \/ Show(r)
    \/ Add(r)
    \/ Push(r)

Spec == Init /\ [][Next]_vars

\* ------------------------------------------------------------ properties

\* The lines of the trimmed text t, each named by the index it starts at.
LineStarts(t) == {i \in 1..(Len(t) + 1) : i = 1 \/ t[i - 1] = "\n"}

LineAt(t, i) ==
  LET ends == {j \in i..(Len(t) + 1) : j = Len(t) + 1 \/ t[j] = "\n"}
  IN SubSeq(t, i, (CHOOSE j \in ends : \A k \in ends : j <= k) - 1)

EqualsAt(line) == {i \in 1..Len(line) : line[i] = "="}

FirstEquals(line) == CHOOSE i \in EqualsAt(line) : \A j \in EqualsAt(line) : i <= j

KeyPart(line) == Trim(SubSeq(line, 1, FirstEquals(line) - 1))

ValuePart(line) == Trim(SubSeq(line, FirstEquals(line) + 1, Len(line)))

\* A line with a non-empty key before its first '=' and a non-empty value
\* after it.
KeyValueAtFirstEquals(line) ==
  EqualsAt(line) # {} /\ KeyPart(line) # <<>> /\ ValuePart(line) # <<>>

\* The same, of a line that holds exactly one '='.
KeyValueAtOnlyEquals(line) ==
  Cardinality(EqualsAt(line)) = 1 /\ KeyValueAtFirstEquals(line)

\* A line that is a key and a value: at its first '=' when firstOnly, at
\* its only '=' otherwise.
WellFormed(line, firstOnly) ==
  IF firstOnly THEN KeyValueAtFirstEquals(line) ELSE KeyValueAtOnlyEquals(line)

\* parseInput is all-or-nothing: if every line of the trimmed input is
\* well formed, the result is the object with exactly the lines' keys, each
\* with the trimmed value of the last line that gives it; otherwise
\* parseInput throws and returns no map.
AllOrNothing(firstOnly) ==
  parsed # NotCalled =>
    LET t == Trim(input)
        starts == LineStarts(t)
    IN IF \A i \in starts : WellFormed(LineAt(t, i), firstOnly)
       THEN /\ parsed.ok
            /\ parsed.val.t = "object"
            /\ Len(parsed.val.es) = Cardinality(KeysOf(parsed.val.es))
            /\ KeysOf(parsed.val.es) = {KeyPart(LineAt(t, i)) : i \in starts}
            /\ \A i \in starts :
                 (\A j \in starts :
                    j > i => KeyPart(LineAt(t, j)) # KeyPart(LineAt(t, i)))
                 => Get(parsed.val.es, KeyPart(LineAt(t, i)))
                      = JSString(ValuePart(LineAt(t, i)))
       ELSE parsed = Thrown

\* C6, as claimed: each line is split on its first '=', so that a line
\* whose value holds a further '=' is a key and a value; parseInput yields
\* the map of all lines or fails without a map.
C6_SplitOnFirstEquals == AllOrNothing(TRUE)

\* C6, amended: each line is split on every '=', so a line is a key and a
\* value only if it holds exactly one '=' with a non-empty trimmed text on
\* either side; if every line of the trimmed input is, parseInput returns
\* the map of exactly those keys and trimmed values (the last line wins
\* for a repeated key); if one line is not, parseInput throws and no map,
\* not even a partial one, is produced.
C6_AllOrNothing == AllOrNothing(FALSE)

\* C6's case: two lines with different keys, parsed into a map of two.
C6_Witness ==
  /\ parsed.ok
  /\ Len(parsed.val.es) = 2

\* ---- the properties of one run (SpecRun) ----

NonBlank(x) == \E i \in 1..Len(x) : x[i] \notin WhiteSpace

Began(r) == run[r].pc # "off" /\ run[r].pc # "start"

NewMap(r) == run[r].resolved.val

\* No git command was issued, nothing was written or pushed, and the local
\* and the remote note are as they were.
NothingDone(r) ==
  /\ run[r].cmds = <<>>
  /\ run[r].message = NoNote
  /\ run[r].pushed = NoNote
  /\ local = local0
  /\ remote = remote0

\* The note on the commit when the only run reads it: the remote one if
\* its fetch succeeded, else the one its repository held.
Attached(r) ==
  IF run[r].cmds[2].ok THEN remote0 ELSE local0[run[r].repo]

FatalFailure(c) == (c.cmd = "rev-parse" \/ c.cmd = "add" \/ c.cmd = "push") /\ ~c.ok

\* C1: a successful run with a non-empty new map N, on a commit whose note
\* parses as a JSON object E, writes and pushes the object R with
\* R[k] = N[k] for k in N, R[k] = E[k] for k in E and not in N, and no
\* other key.
C1_MergeLaw ==
  \A r \in Runs :
    ( /\ run[r].status = "success"
      /\ NewMap(r).t = "object"
      /\ NewMap(r).es # <<>>
      /\ Attached(r) # NoNote
      /\ JSONparse(Attached(r)).ok
      /\ JSONparse(Attached(r)).val.t = "object" )
    => LET E == JSONparse(Attached(r)).val.es
           N == NewMap(r).es
           R == JSONparse(run[r].message)
       IN /\ R.ok /\ R.val.t = "object"
          /\ Len(R.val.es) = Cardinality(KeysOf(R.val.es))
          /\ KeysOf(R.val.es) = KeysOf(N) \cup KeysOf(E)
          /\ \A k \in KeysOf(N) : Get(R.val.es, k) = Get(N, k)
          /\ \A k \in KeysOf(E) \ KeysOf(N) : Get(R.val.es, k) = Get(E, k)
          /\ local[run[r].repo] = run[r].message
          /\ remote = run[r].message

\* C1's case: a merge in which one key of E is overwritten by a different
\* value and another key of E is kept.
C1_Witness ==
  \E r \in Runs :
    /\ run[r].status = "success"
    /\ run[r].cmds # <<>>
    /\ NewMap(r).t = "object"
    /\ Attached(r) # NoNote
    /\ JSONparse(Attached(r)).ok
    /\ JSONparse(Attached(r)).val.t = "object"
    /\ LET E == JSONparse(Attached(r)).val.es
           N == NewMap(r).es
       IN /\ KeysOf(E) \ KeysOf(N) # {}
          /\ \E k \in KeysOf(E) \cap KeysOf(N) : Get(E, k) # Get(N, k)

\* C3: a run with a valid, non-empty map issues rev-parse, fetch, show,
\* add, push in that order; it fails if and only if rev-parse, add or push
\* failed; a failed fetch or show is followed by the next command; the
\* command that failed fatally is the last one issued; and success is
\* reported only after add and then push succeeded.
C3_FatalAndAbsorbed ==
  \A r \in Runs :
    ( /\ Began(r)
      /\ run[r].resolved.ok
      /\ ~ObjectKeysThrows(NewMap(r))
      /\ OwnEntries(NewMap(r)) # <<>> )
    => LET c == run[r].cmds
       IN /\ Len(c) <= Len(Commands)
          /\ \A i \in 1..Len(c) : c[i].cmd = Commands[i]
          /\ run[r].status = "failed" <=> \E i \in 1..Len(c) : FatalFailure(c[i])
          /\ \A i \in 1..Len(c) : FatalFailure(c[i]) => i = Len(c)
          /\ run[r].status = "success" <=>
               (Len(c) = Len(Commands) /\ c[1].ok /\ c[4].ok /\ c[5].ok)
          /\ run[r].status = "running" => run[r].pc = Commands[Len(c) + 1]
          /\ run[r].status # "running" => run[r].pc = "done"

\* C3's case: the fetch and the notes show both failed and the run
\* succeeded.
C3_Witness ==
  \E r \in Runs :
    /\ run[r].status = "success"
    /\ run[r].cmds # <<>>
    /\ ~run[r].cmds[2].ok
    /\ ~run[r].cmds[3].ok

\* C4: when values and values_file are both non-empty after trimming, or
\* both empty, readInput throws, the run fails, and nothing is done: no
\* file is read, no git command is issued, no note is written or pushed.
C4_ExactlyOneSource ==
  \A r \in Runs :
    (Began(r) /\ (NonBlank(run[r].values) <=> NonBlank(run[r].valuesFile)))
    => /\ ~run[r].resolved.ok
       /\ run[r].status = "failed"
       /\ run[r].pc = "done"
       /\ run[r].content = Unread
       /\ NothingDone(r)

\* C4's case: both sources given, the inline one well formed.
C4_Witness ==
  \E r \in Runs :
    /\ Began(r)
    /\ NonBlank(run[r].valuesFile)
    /\ parseInput(run[r].values).ok

\* C5, as claimed: a values_file that holds valid JSON is accepted if and
\* only if its top-level value is an object, which is then returned
\* unchanged; for an array, a string, a number, a boolean or null
\* readInput throws and the run fails.
C5_ObjectOnly ==
  \A r \in Runs :
    ( /\ Began(r)
      /\ run[r].content # Unread /\ run[r].content # ReadError
      /\ JSONparse(run[r].content).ok )
    => IF JSONparse(run[r].content).val.t = "object"
       THEN run[r].resolved = Returned(JSONparse(run[r].content).val)
       ELSE ~run[r].resolved.ok /\ run[r].status = "failed"

\* C7: when the commit has a note whose body is not valid JSON, the run
\* does not fail for it: the message of notes add is exactly the new map,
\* and after a successful add the note is that message and push is next.
C7_UnparsableDiscarded ==
  \A r \in Runs :
    ( /\ Len(run[r].cmds) >= 3
      /\ Attached(r) # NoNote
      /\ ~JSONparse(Attached(r)).ok )
    => LET c == run[r].cmds
       IN /\ c[3].ok
          /\ run[r].message = JSONstringify(NewMap(r))
          /\ JSONparse(run[r].message) = Returned(NewMap(r))
          /\ run[r].status = "failed" => FatalFailure(c[Len(c)])
          /\ Len(c) = 3 => run[r].pc = "add"
          /\ (Len(c) = 4 /\ c[4].ok) =>
               run[r].pc = "push" /\ local[run[r].repo] = run[r].message

\* C7's case: the note held text that is not JSON, and the run succeeded.
C7_Witness ==
  \E r \in Runs :
    /\ run[r].status = "success"
    /\ run[r].cmds # <<>>
    /\ Attached(r) = <<"x">>
    /\ remote = JSONstringify(NewMap(r))

\* C9, as claimed: every note body the action writes is a JSON object.
C9_WritesAnObject ==
  \A r \in Runs :
    run[r].message # NoNote =>
      JSONparse(run[r].message).ok /\ JSONparse(run[r].message).val.t = "object"

EmptyMap(r) ==
  /\ Began(r)
  /\ run[r].resolved.ok
  /\ (NewMap(r).t = "object" \/ NewMap(r).t = "array")
  /\ NewMap(r).es = <<>>

SkippedWithSuccess(r) ==
  run[r].status = "success" /\ run[r].pc = "done" /\ NothingDone(r)

\* C10, as claimed: a run whose map has no keys succeeds without any note
\* operation, and such a map comes only from an inline values text.
C10_EmptyOnlyFromInline ==
  \A r \in Runs :
    (EmptyMap(r) /\ NewMap(r).t = "object") =>
      /\ SkippedWithSuccess(r)
      /\ run[r].values # <<>>
      /\ run[r].content = Unread

\* C10, amended: a run whose map has no keys succeeds without any note
\* operation (no git command, local and remote notes unchanged), and such
\* a map comes only from a values_file whose JSON content is {} or []:
\* the inline values text is then blank, and an inline text that
\* readInput accepts gives at least one pair.
C10_EmptyOnlyFromFile ==
  \A r \in Runs :
    /\ EmptyMap(r) =>
         /\ SkippedWithSuccess(r)
         /\ ~NonBlank(run[r].values)
         /\ NonBlank(run[r].valuesFile)
         /\ JSONparse(run[r].content).ok
         /\ (\/ JSONparse(run[r].content).val = JSObject(<<>>)
             \/ JSONparse(run[r].content).val = JSArray(<<>>))
    /\ (Began(r) /\ run[r].resolved.ok /\ run[r].content = Unread) =>
         NewMap(r).t = "object" /\ NewMap(r).es # <<>>

\* C10's case: the file holds {} and the run has ended.
C10_Witness ==
  \E r \in Runs :
    /\ EmptyMap(r)
    /\ run[r].content = <<"{", "}">>
    /\ run[r].pc = "done"

\* ---- the properties of two runs (Spec) ----

\* C2: a push that succeeds leaves the remote note equal to the pushing
\* run's local note whatever the remote held, and the run reports
\* success: the last push wins and no conflict is detected.
C2_LastPushWins ==
  [][\A r \in Runs :
       ( /\ run[r].pc = "push"
         /\ Len(run'[r].cmds) = Len(Commands)
         /\ run'[r].cmds[Len(Commands)].ok )
       => remote' = local[run[r].repo] /\ run'[r].status = "success"]_vars

\* C2's case: two runs that overlapped both succeeded, and the remote note
\* is what the one wrote, without a key the other wrote.
C2_Witness ==
  \E r \in Runs, q \in Runs :
    /\ r # q
    /\ run[r].status = "success" /\ run[q].status = "success"
    /\ r \notin run[q].after /\ q \notin run[r].after
    /\ remote = run[r].message
    /\ JSONparse(remote).ok
    /\ KeysOf(NewMap(q).es) \ KeysOf(JSONparse(remote).val.es) # {}

\* The second of two successful runs with the same non-empty map, begun
\* after the first ended, leaves the remote note as the first left it.
SameAsOnce(first, second) ==
  ( /\ run[first].status = "success" /\ run[second].status = "success"
    /\ first \in run[second].after
    /\ run[first].cmds # <<>> /\ run[second].cmds # <<>>
    /\ NewMap(first).t = "object"
    /\ NewMap(first) = NewMap(second) )
  => remote = run[first].pushed

\* C8, as claimed: two successful runs in succession with the same N
\* leave the note a single run leaves.
C8_Idempotent ==
  \A first \in Runs, second \in Runs : SameAsOnce(first, second)

\* C8, amended: they do when the second run reads the note the first one
\* left, that is when its fetch succeeds or it runs in the first run's
\* working repository.
C8_IdempotentWhenFetched ==
  \A first \in Runs, second \in Runs :
    (run[second].cmds # <<>> /\ Len(run[second].cmds) >= 2
       /\ (run[second].cmds[2].ok \/ run[second].repo = run[first].repo))
    => SameAsOnce(first, second)

\* C8's case: the second run, in another repository, fetched the merge of
\* the first and stored it again.
C8_Witness ==
  \E first \in Runs, second \in Runs :
    /\ run[first].status = "success" /\ run[second].status = "success"
    /\ first \in run[second].after
    /\ NewMap(first) = NewMap(second)
    /\ run[second].repo # run[first].repo
    /\ run[second].cmds[2].ok
    /\ JSONparse(remote0).ok
    /\ KeysOf(JSONparse(remote0).val.es) \ KeysOf(NewMap(first).es) # {}
    /\ remote = run[first].pushed

====
